---- MODULE Spec2Model ----
(***************************************************************************)
(* Two-level adaptive training branch predictor (Yeh & Patt, MICRO-24):    *)
(* history register tables (IHRT / HHRT / AHRT), pattern table of          *)
(* automata, and their composition TwoLevelATPredictor.                    *)
(***************************************************************************)
EXTENDS Integers, Naturals, Sequences, FiniteSets, TLC

\* ------------------------------------------------------------------ bounds
\* Number of word-aligned branch addresses 0, 4, 8, ... fed to the tables.
MaxPC == 3
\* Largest history value above the k-bit range offered to HistoryTable::set.
MaxOver == 1
\* Number of calls made on one instance (length of the driven call sequence).
MaxCalls == 4
\* Number of word-aligned branch addresses in the traces of the simulation loop.
MaxTracePC == 2
\* Number of records of a trace.
MaxEvents == 4
\* Number of outcomes fed to the automata on their own.
MaxSteps == 8

\* Largest entry count and history length of the cost comparison.
MaxCostEntries == 4
MaxCostBits == 4
\* Number of whole events on the addresses PCs.
MaxEvt == 3
\* Number of lines of a trace file.
MaxTape == 2
\* Number of word-aligned branch addresses in the lines of a trace file.
MaxTapePC == 1

\* ------------------------------------------------------- program constants
NotTaken == 0
Taken == 1
\* std::uint16_t history registers
HistWidth == 65536

\* ------------------------------------------------------------ bit helpers
\* All 32- and 64-bit quantities of the model (addresses, indices, tags,
\* masks) stay far below 2^31, so only the 16-bit history width can wrap.
RECURSIVE Pow2(_)
Pow2(n) == IF n = 0 THEN 1 ELSE 2 * Pow2(n - 1)

\* a & b on non-negative integers
RECURSIVE BitAnd(_, _)
BitAnd(a, b) ==
    IF a = 0 \/ b = 0 THEN 0
    ELSE 2 * BitAnd(a \div 2, b \div 2) + (IF a % 2 = 1 /\ b % 2 = 1 THEN 1 ELSE 0)

\* a | b on non-negative integers
RECURSIVE BitOr(_, _)
BitOr(a, b) ==
    IF a = 0 THEN b
    ELSE IF b = 0 THEN a
    ELSE 2 * BitOr(a \div 2, b \div 2) + (IF a % 2 = 1 \/ b % 2 = 1 THEN 1 ELSE 0)

\* a >> n
Shr(a, n) == a \div Pow2(n)

\* bit i of a
Bit(a, i) == Shr(a, i) % 2

\* least element of a non-empty set of naturals
MinOf(S) == CHOOSE x \in S : \A y \in S : x <= y

\* ------------------------------------------------------------- automaton
AutomatonType == {"LastTime", "A2", "A3", "A4"}

\* initial states with the last-time automaton value-initialised to 0
automaton_init_state_lt0(t) ==
    IF t = "LastTime" THEN 0 ELSE 3

\* initial states with A3 starting weakly taken
automaton_init_state_a3(t) ==
    IF t = "LastTime" THEN 1 ELSE IF t = "A3" THEN 2 ELSE 3

automaton_init_state(t) ==
    IF t = "LastTime" THEN 1 ELSE 3

\* a counter that predicts taken from state 1 upwards
automaton_predict_weak(t, state) ==
    IF t = "LastTime" THEN BitAnd(state, 1) # 0 ELSE state >= 1

automaton_predict(t, state) ==
    IF t = "LastTime" THEN BitAnd(state, 1) # 0 ELSE state >= 2

\* a last-time automaton that keeps its state on a not-taken outcome
automaton_next_sticky(t, state, o) ==
    IF t = "LastTime" THEN (IF o = Taken THEN 1 ELSE state)
    ELSE IF o = Taken THEN (IF state < 3 THEN state + 1 ELSE state)
    ELSE (IF state > 0 THEN state - 1 ELSE state)

\* a counter that steps without saturating (8-bit wrap-around)
automaton_next_wrap(t, state, o) ==
    IF t = "LastTime" THEN (IF o = Taken THEN 1 ELSE 0)
    ELSE IF o = Taken THEN (state + 1) % 256
    ELSE (state + 255) % 256

automaton_next(t, state, o) ==
    IF t = "LastTime" THEN (IF o = Taken THEN 1 ELSE 0)
    ELSE IF o = Taken THEN (IF state < 3 THEN state + 1 ELSE state)
    ELSE (IF state > 0 THEN state - 1 ELSE state)

\* --------------------------------------------------------- configurations
\* Scaled-down ATConfig records: the three HRT kinds, every automaton,
\* history lengths 1 and 2, power-of-two set counts.
ATConfig(kind, e, w, k, a) ==
    [hrt_kind |-> kind, hrt_entries |-> e, hrt_ways |-> w,
     history_bits |-> k, automaton |-> a]

configs ==
    { ATConfig("AHRT", 2, 2, 2, "A2"),
      ATConfig("AHRT", 2, 1, 2, "A2"),
      ATConfig("AHRT", 4, 2, 1, "A3"),
      ATConfig("AHRT", 2, 2, 2, "LastTime"),
      ATConfig("HHRT", 2, 1, 2, "A2"),
      ATConfig("HHRT", 1, 1, 2, "A4"),
      ATConfig("HHRT", 2, 1, 1, "LastTime"),
      ATConfig("IHRT", 0, 0, 2, "A2"),
      ATConfig("IHRT", 0, 0, 1, "LastTime") }

\* Branch addresses of the trace: aligned words plus one unaligned address
\* that shares slot, set and tag with address 0.
PCs == { 4 * i : i \in 0 .. MaxPC - 1 } \cup {1}

VARIABLES
    cfg,          \* ATConfig the instance was constructed from
    ihrt_table,   \* IHRTTable::table_   (pc -> history, domain grows)
    hhrt_hist,    \* HHRTTable::hist_    (slot -> history)
    ahrt_table,   \* AHRTTable::table_   (set -> way -> Entry)
    next_victim,  \* AHRTTable::next_victim_ (set -> way)
    entries,      \* PatternTable::entries_  (index -> automaton state)
    idx,          \* index last used by PatternTable::predict / update
    ret,          \* value returned by the last call
    op,           \* the last call: [name, pc, arg]
    assigned,     \* per set: ways in order of their last assignment
    recent,       \* per pc: outcomes passed to update, newest first, <= k
    calls,        \* number of calls made on the instance so far
    written,      \* <<pc, entry>> of every HistoryTable::set made so far
    stats,          \* ATSim::stats          [total, correct]
    stats_always,   \* main: stats_always    [total, correct]
    stats_bimodal,  \* main: stats_bimodal   [total, correct]
    bimodal_table,  \* Bimodal2BitPredictor::table_ (pc -> 2-bit state)
    trace,          \* records read from the trace so far: <<pc, outcome>>
    preds,          \* prediction of the two-level instance for each record
    astate,         \* automaton kind -> state, all kinds fed the same outcomes
    ainputs,        \* outcomes fed to the automata so far
    avisit,         \* automaton kind -> states entered, one per outcome
    tape,           \* the records of the trace file, in file order
    other,          \* a second ATSim of at_sims: [h, e, st, pr]
    drv             \* main's position in the loop: [loc, sim, log]

simvars == <<stats, stats_always, stats_bimodal, bimodal_table, trace, preds>>

autovars == <<astate, ainputs, avisit>>

drvvars == <<tape, other, drv>>

vars == <<cfg, ihrt_table, hhrt_hist, ahrt_table, next_victim, entries,
          idx, ret, op, assigned, recent, calls, written,
          stats, stats_always, stats_bimodal, bimodal_table, trace, preds,
          astate, ainputs, avisit, tape, other, drv>>

\* ------------------------------------------------- derived configuration
history_bits == cfg.history_bits
\* mask_((1u << history_bits) - 1u)
mask == Pow2(history_bits) - 1
\* all-ones default one bit short: (1u << (history_bits - 1)) - 1u
init_history_short == (Pow2(history_bits - 1) - 1) % HistWidth

\* init_history_((1u << history_bits) - 1u), stored as uint16_t
init_history == (Pow2(history_bits) - 1) % HistWidth

ways == cfg.hrt_ways
sets == IF cfg.hrt_kind = "AHRT" THEN cfg.hrt_entries \div cfg.hrt_ways ELSE 0

\* while ((1 << set_index_bits_) < sets_) ++set_index_bits_;
RECURSIVE Log2From(_, _)
Log2From(b, n) == IF Pow2(b) < n THEN Log2From(b + 1, n) ELSE b
set_index_bits == Log2From(0, sets)

\* ------------------------------------------------------------- IHRTTable
IHRT_get(T, pc) == IF pc \in DOMAIN T THEN T[pc] ELSE init_history

\* a set that overwrites known addresses but never inserts
IHRT_set_noinsert(T, pc, history) ==
    [p \in DOMAIN T |-> IF p = pc THEN history ELSE T[p]]

\* a set keyed by the word address (alignment bits dropped)
IHRT_set_word(T, pc, history) ==
    [p \in (DOMAIN T) \cup {4 * (pc \div 4)} |->
        IF p = 4 * (pc \div 4) THEN history ELSE T[p]]

IHRT_set(T, pc, history) ==
    [p \in (DOMAIN T) \cup {pc} |-> IF p = pc THEN history ELSE T[p]]

IHRT_capacity_entries(T) == Cardinality(DOMAIN T)

\* ------------------------------------------------------------- HHRTTable
\* slot taken from the address without dropping the alignment bits
HHRT_index_noshift(pc) == BitAnd(pc, cfg.hrt_entries - 1)

HHRT_index(pc) == BitAnd(Shr(pc, 2), cfg.hrt_entries - 1)

\* a read that always takes slot 0
HHRT_get_slot0(Hs, pc) == Hs[0]

HHRT_get(Hs, pc) == Hs[HHRT_index(pc)]

HHRT_set(Hs, pc, history) == [Hs EXCEPT ![HHRT_index(pc)] = history]

HHRT_capacity_entries == cfg.hrt_entries

\* ------------------------------------------------------------- AHRTTable
AHRT_set_index(pc) == BitAnd(Shr(pc, 2), sets - 1)

\* tag that drops one address bit too many
AHRT_tag_for_short(pc) == Shr(pc, 3 + set_index_bits)

AHRT_tag_for(pc) == Shr(pc, 2 + set_index_bits)

\* hit scan that stops after way 0
AHRT_hits_way0(T, pc) ==
    { w \in {0} :
        T[AHRT_set_index(pc)][w].valid /\ T[AHRT_set_index(pc)][w].tag = AHRT_tag_for(pc) }

\* ways of pc's set holding a valid line with pc's tag
AHRT_hits(T, pc) ==
    { w \in 0 .. ways - 1 :
        T[AHRT_set_index(pc)][w].valid /\ T[AHRT_set_index(pc)][w].tag = AHRT_tag_for(pc) }

\* AHRTTable::access that always evicts way 0
AHRT_access_way0(T, NV, pc) ==
    LET si  == BitAnd(Shr(pc, 2), sets - 1)
        tag == Shr(pc, 2 + set_index_bits)
        hit == { w \in 0 .. ways - 1 : T[si][w].valid /\ T[si][w].tag = tag }
    IN  IF hit # {}
        THEN [table |-> T, nv |-> NV, set |-> si, way |-> MinOf(hit), miss |-> FALSE]
        ELSE [table |-> [T EXCEPT ![si][0].valid = TRUE, ![si][0].tag = tag],
              nv    |-> [NV EXCEPT ![si] = (NV[si] + 1) % ways],
              set   |-> si, way |-> 0, miss |-> TRUE]

\* AHRTTable::access that advances the cursor on hits as well
AHRT_access_advhit(T, NV, pc) ==
    LET si  == BitAnd(Shr(pc, 2), sets - 1)
        tag == Shr(pc, 2 + set_index_bits)
        hit == { w \in 0 .. ways - 1 : T[si][w].valid /\ T[si][w].tag = tag }
    IN  IF hit # {}
        THEN [table |-> T, nv |-> [NV EXCEPT ![si] = (NV[si] + 1) % ways],
              set |-> si, way |-> MinOf(hit), miss |-> FALSE]
        ELSE LET victim == NV[si]
             IN  [table |-> [T EXCEPT ![si][victim].valid = TRUE,
                                      ![si][victim].tag = tag],
                  nv    |-> [NV EXCEPT ![si] = (victim + 1) % ways],
                  set   |-> si, way |-> victim, miss |-> TRUE]

\* AHRTTable::access that reinitialises the history of a reassigned line
AHRT_access_reset(T, NV, pc) ==
    LET si  == BitAnd(Shr(pc, 2), sets - 1)
        tag == Shr(pc, 2 + set_index_bits)
        hit == { w \in 0 .. ways - 1 : T[si][w].valid /\ T[si][w].tag = tag }
    IN  IF hit # {}
        THEN [table |-> T, nv |-> NV, set |-> si, way |-> MinOf(hit), miss |-> FALSE]
        ELSE LET victim == NV[si]
             IN  [table |-> [T EXCEPT ![si][victim] =
                                [valid |-> TRUE, tag |-> tag, history |-> init_history]],
                  nv    |-> [NV EXCEPT ![si] = (victim + 1) % ways],
                  set   |-> si, way |-> victim, miss |-> TRUE]

\* an access whose miss stamps the tag but leaves the line invalid
AHRT_access_novalid(T, NV, pc) ==
    LET si  == AHRT_set_index(pc)
        tag == AHRT_tag_for(pc)
        hit == AHRT_hits(T, pc)
    IN  IF hit # {}
        THEN [table |-> T, nv |-> NV, set |-> si, way |-> MinOf(hit), miss |-> FALSE]
        ELSE LET victim == NV[si]
             IN  [table |-> [T EXCEPT ![si][victim].tag = tag],
                  nv    |-> [NV EXCEPT ![si] = (victim + 1) % ways],
                  set   |-> si, way |-> victim, miss |-> TRUE]

\* AHRTTable::access: the table, cursors and the way of the returned line
AHRT_access(T, NV, pc) ==
    LET si  == AHRT_set_index(pc)
        tag == AHRT_tag_for(pc)
        hit == AHRT_hits(T, pc)
    IN  IF hit # {}
        THEN [table |-> T, nv |-> NV, set |-> si, way |-> MinOf(hit), miss |-> FALSE]
        ELSE LET victim == NV[si]
             IN  [table |-> [T EXCEPT ![si][victim].valid = TRUE,
                                      ![si][victim].tag = tag],
                  nv    |-> [NV EXCEPT ![si] = (victim + 1) % ways],
                  set   |-> si, way |-> victim, miss |-> TRUE]

AHRT_capacity_entries == cfg.hrt_entries

\* ------------------------------------- HistoryTable (virtual dispatch)
\* The state of the history table object the predictor owns.
HRT == [it |-> ihrt_table, hh |-> hhrt_hist, at |-> ahrt_table,
        nv |-> next_victim, as |-> assigned, wr |-> written]

\* assignment order of set si after way w has been (re)assigned
Reassign(order, w) ==
    Append(SelectSeq(order, LAMBDA x : x # w), w)

\* HistoryTable::get whose exhaustive lookup inserts the default (table_[pc])
HRT_get_insert(H, pc) ==
    IF cfg.hrt_kind = "IHRT"
    THEN [h   |-> [H EXCEPT !.it = IHRT_set(H.it, pc, IHRT_get(H.it, pc))],
          val |-> IHRT_get(H.it, pc)]
    ELSE IF cfg.hrt_kind = "HHRT" THEN [h |-> H, val |-> HHRT_get(H.hh, pc)]
    ELSE LET a == AHRT_access(H.at, H.nv, pc)
         IN  [h   |-> [H EXCEPT !.at = a.table, !.nv = a.nv,
                                !.as = IF a.miss
                                       THEN [H.as EXCEPT ![a.set] = Reassign(@, a.way)]
                                       ELSE H.as],
              val |-> a.table[a.set][a.way].history]

\* HistoryTable::get: the table state after the call and the value returned
HRT_get(H, pc) ==
    IF cfg.hrt_kind = "IHRT" THEN [h |-> H, val |-> IHRT_get(H.it, pc)]
    ELSE IF cfg.hrt_kind = "HHRT" THEN [h |-> H, val |-> HHRT_get(H.hh, pc)]
    ELSE LET a == AHRT_access(H.at, H.nv, pc)
         IN  [h   |-> [H EXCEPT !.at = a.table, !.nv = a.nv,
                                !.as = IF a.miss
                                       THEN [H.as EXCEPT ![a.set] = Reassign(@, a.way)]
                                       ELSE H.as],
              val |-> a.table[a.set][a.way].history]

\* HistoryTable::set: the table state after the call
HRT_set(H, pc, history) ==
    IF cfg.hrt_kind = "IHRT"
    THEN [H EXCEPT !.it = IHRT_set(H.it, pc, history),
                   !.wr = @ \cup {<<pc, pc>>}]
    ELSE IF cfg.hrt_kind = "HHRT"
    THEN [H EXCEPT !.hh = HHRT_set(H.hh, pc, history),
                   !.wr = @ \cup {<<pc, HHRT_index(pc)>>}]
    ELSE LET a == AHRT_access(H.at, H.nv, pc)
         IN  [H EXCEPT !.at = [a.table EXCEPT ![a.set][a.way].history = history],
                       !.nv = a.nv,
                       !.wr = @ \cup {<<pc, <<a.set, a.way>>>>},
                       !.as = IF a.miss
                              THEN [H.as EXCEPT ![a.set] = Reassign(@, a.way)]
                              ELSE H.as]

\* HistoryTable::capacity_entries
HRT_capacity_entries(H) ==
    IF cfg.hrt_kind = "IHRT" THEN IHRT_capacity_entries(H.it)
    ELSE IF cfg.hrt_kind = "HHRT" THEN HHRT_capacity_entries
    ELSE AHRT_capacity_entries

\* ----------------------------------------------------------- PatternTable
\* an index that keeps one bit fewer than the table has
PT_index_short(history) ==
    BitAnd(history, Pow2(history_bits - 1) - 1)

\* std::uint32_t idx = history & mask_
PT_index(history) == BitAnd(history, mask)

PT_predict(E, history) == automaton_predict(cfg.automaton, E[PT_index(history)])

PT_update(E, history, o) ==
    [E EXCEPT ![PT_index(history)] = automaton_next(cfg.automaton, @, o)]

PT_num_entries(E) == Cardinality(DOMAIN E)

\* ---------------------------------------------------- TwoLevelATPredictor
\* shift without the mask
ShiftIn_nomask(old_h, o) ==
    BitOr(old_h * 2, IF o = Taken THEN 1 ELSE 0) % HistWidth

\* shift register with the newest outcome in the high bit
ShiftIn_high(old_h, o) ==
    BitAnd(BitOr(old_h \div 2, (IF o = Taken THEN 1 ELSE 0) * Pow2(history_bits - 1)), mask)
        % HistWidth

\* a register that shifts right and inserts the outcome at the top bit
ShiftIn_right(old_h, o) ==
    (old_h \div 2) + (IF o = Taken THEN Pow2(history_bits - 1) ELSE 0)

\* new_h = uint16_t(((old_h << 1) | bit) & mask_)
ShiftIn(old_h, o) ==
    BitAnd(BitOr(old_h * 2, IF o = Taken THEN 1 ELSE 0), mask) % HistWidth

\* newest-first record of the outcomes of one address, at most k long
Remember(r, o) == SubSeq(<<o>> \o r, 1, IF Len(r) < history_bits THEN Len(r) + 1 ELSE history_bits)

\* a cost that charges one bit per pattern-table entry
cost_bits_onebit(cap, k, n) == cap * k + n

\* hrt_bits + pt_bits for a history table of cap entries, k history bits
\* and a pattern table of n entries
cost_bits(cap, k, n) == cap * k + n * 2

\* TwoLevelATPredictor::hardware_cost_bits()
hardware_cost_bits(H, E) ==
    cost_bits(HRT_capacity_entries(H), history_bits, PT_num_entries(E))

\* ----------------------------------------------------- baseline predictors
\* a static predictor that predicts not taken for address 0
AlwaysTaken_predict_zero(pc) == pc # 0

AlwaysTaken_predict(pc) == TRUE

\* a default of weakly taken for unseen addresses
Bimodal_state_weak(T, pc) == IF pc \in DOMAIN T THEN T[pc] ELSE 2

\* Bimodal2BitPredictor: state of pc, 3 (strongly taken) when unseen
Bimodal_state(T, pc) == IF pc \in DOMAIN T THEN T[pc] ELSE 3

Bimodal_predict(T, pc) == automaton_predict("A2", Bimodal_state(T, pc))

Bimodal_update(T, pc, o) ==
    [p \in (DOMAIN T) \cup {pc} |->
        IF p = pc THEN automaton_next("A2", Bimodal_state(T, pc), o) ELSE T[p]]

\* ------------------------------------------------------------------ Stats
\* Stats{}: total = 0, correct = 0
Stats0 == [total |-> 0, correct |-> 0]

\* a comparison that looks at the outcome only
Correct_taken(p, o) == o = Taken

\* bool correct = (p && o == Taken) || (!p && o == NotTaken)
Correct(p, o) == (p /\ o = Taken) \/ (~p /\ o = NotTaken)

\* a tally that counts an event only when the prediction was correct
Score_hits(st, p, o) ==
    IF Correct(p, o)
    THEN [total |-> st.total + 1, correct |-> st.correct + 1]
    ELSE st

\* if (correct) stats.correct++; stats.total++;
Score(st, p, o) ==
    [total |-> st.total + 1,
     correct |-> IF Correct(p, o) THEN st.correct + 1 ELSE st.correct]

\* an accuracy that divides without looking at total
accuracy_nocheck(st) == [num |-> st.correct, den |-> st.total]

\* Stats::accuracy(): 0.0 when total is 0, else the quotient
\* double(correct) / double(total), kept as the fraction num/den
accuracy(st) ==
    IF st.total = 0 THEN [num |-> 0, den |-> 1]
    ELSE [num |-> st.correct, den |-> st.total]

\* ------------------------------------------------------------------- Init
\* the members of the instance and of main as the constructors leave them
Constructed ==
    /\ ihrt_table = <<>>
    /\ hhrt_hist = IF cfg.hrt_kind = "HHRT"
                   THEN [i \in 0 .. cfg.hrt_entries - 1 |-> init_history]
                   ELSE <<>>
    /\ ahrt_table = IF cfg.hrt_kind = "AHRT"
                    THEN [s \in 0 .. sets - 1 |->
                            [w \in 0 .. ways - 1 |->
                                [valid |-> FALSE, tag |-> 0, history |-> init_history]]]
                    ELSE <<>>
    /\ next_victim = IF cfg.hrt_kind = "AHRT" THEN [s \in 0 .. sets - 1 |-> 0] ELSE <<>>
    /\ assigned = IF cfg.hrt_kind = "AHRT" THEN [s \in 0 .. sets - 1 |-> <<>>] ELSE <<>>
    /\ entries = [i \in 0 .. Pow2(cfg.history_bits) - 1 |-> automaton_init_state(cfg.automaton)]
    /\ idx = 0
    /\ ret = 0
    /\ op = [name |-> "new", pc |-> 0, arg |-> 0]
    /\ recent = [p \in PCs |-> <<>>]
    /\ calls = 0
    /\ written = {}
    /\ stats = Stats0
    /\ stats_always = Stats0
    /\ stats_bimodal = Stats0
    /\ bimodal_table = <<>>
    /\ trace = <<>>
    /\ preds = <<>>
    /\ astate = [t \in AutomatonType |-> automaton_init_state(t)]
    /\ ainputs = <<>>
    /\ avisit = [t \in AutomatonType |-> <<>>]

\* no trace file, no second instance, the loop not entered
Idle ==
    /\ tape = <<>>
    /\ other = <<>>
    /\ drv = [loc |-> "read", sim |-> 0, log |-> <<>>]

Init ==
    /\ cfg \in configs
    /\ Constructed
    /\ Idle

\* the history table variables take the state H
SetHRT(H) ==
    /\ ihrt_table' = H.it
    /\ hhrt_hist' = H.hh
    /\ ahrt_table' = H.at
    /\ next_victim' = H.nv
    /\ assigned' = H.as
    /\ written' = H.wr

\* TwoLevelATPredictor::predict(pc)
Predict(pc) ==
    LET g == HRT_get(HRT, pc)
    IN  /\ calls < MaxCalls
        /\ calls' = calls + 1
        /\ SetHRT(g.h)
        /\ idx' = PT_index(g.val)
        /\ ret' = PT_predict(entries, g.val)
        /\ op' = [name |-> "predict", pc |-> pc, arg |-> 0]
        /\ UNCHANGED <<cfg, drvvars, entries, recent, simvars, autovars>>

\* TwoLevelATPredictor::update that trains the entry of the shifted history
Update_postshift(pc, o) ==
    LET g     == HRT_get(HRT, pc)
        old_h == g.val
        new_h == ShiftIn(old_h, o)
    IN  /\ calls < MaxCalls
        /\ calls' = calls + 1
        /\ SetHRT(HRT_set(g.h, pc, new_h))
        /\ entries' = PT_update(entries, new_h, o)
        /\ idx' = PT_index(new_h)
        /\ ret' = new_h
        /\ op' = [name |-> "update", pc |-> pc, arg |-> o]
        /\ recent' = [recent EXCEPT ![pc] = Remember(@, o)]
        /\ UNCHANGED <<cfg, drvvars, simvars, autovars>>

\* TwoLevelATPredictor::update(pc, o)
Update(pc, o) ==
    LET g     == HRT_get(HRT, pc)
        old_h == g.val
        new_h == ShiftIn(old_h, o)
    IN  /\ calls < MaxCalls
        /\ calls' = calls + 1
        /\ entries' = PT_update(entries, old_h, o)
        /\ idx' = PT_index(old_h)
        /\ SetHRT(HRT_set(g.h, pc, new_h))
        /\ ret' = new_h
        /\ op' = [name |-> "update", pc |-> pc, arg |-> o]
        /\ recent' = [recent EXCEPT ![pc] = Remember(@, o)]
        /\ UNCHANGED <<cfg, drvvars, simvars, autovars>>

Next ==
    \/ \E pc \in PCs : Predict(pc)
    \/ \E pc \in PCs, o \in {NotTaken, Taken} : Update(pc, o)

Spec == Init /\ [][Next]_vars

\* ------------------------------------------ the history table on its own
\* History values offered to HistoryTable::set: inside the k-bit range,
\* and up to MaxOver above it.
HistInputs == {0, mask - 1} \cup (mask + 1 .. mask + MaxOver)

\* HistoryTable::get(pc) called directly on the table
Get(pc) ==
    LET g == HRT_get(HRT, pc)
    IN  /\ calls < MaxCalls
        /\ calls' = calls + 1
        /\ SetHRT(g.h)
        /\ ret' = g.val
        /\ op' = [name |-> "get", pc |-> pc, arg |-> 0]
        /\ UNCHANGED <<cfg, drvvars, entries, idx, recent, simvars, autovars>>

\* HistoryTable::set(pc, history) called directly on the table
Set(pc, history) ==
    /\ calls < MaxCalls
    /\ calls' = calls + 1
    /\ SetHRT(HRT_set(HRT, pc, history % HistWidth))
    /\ ret' = 0
    /\ op' = [name |-> "set", pc |-> pc, arg |-> history]
    /\ UNCHANGED <<cfg, drvvars, entries, idx, recent, simvars, autovars>>

NextHRT ==
    \/ \E pc \in PCs : Get(pc)
    \/ \E pc \in PCs, history \in HistInputs : Set(pc, history)

SpecHRT == Init /\ [][NextHRT]_vars

\* ------------------------------------------ the pattern table on its own
\* History values offered to the pattern table: the k-bit range and up to
\* MaxOver + 1 values above it.
PatternInputs == 0 .. mask + MaxOver + 1

\* PatternTable::predict(history) called directly on the table
PTPredict(history) ==
    /\ calls < MaxCalls
    /\ calls' = calls + 1
    /\ idx' = PT_index(history % HistWidth)
    /\ ret' = PT_predict(entries, history % HistWidth)
    /\ op' = [name |-> "pt_predict", pc |-> 0, arg |-> <<history, Taken>>]
    /\ UNCHANGED <<cfg, drvvars, entries, ihrt_table, hhrt_hist, ahrt_table, next_victim,
                   assigned, written, recent, simvars, autovars>>

\* PatternTable::update(history, o) called directly on the table
PTUpdate(history, o) ==
    /\ calls < MaxCalls
    /\ calls' = calls + 1
    /\ idx' = PT_index(history % HistWidth)
    /\ entries' = PT_update(entries, history % HistWidth, o)
    /\ ret' = 0
    /\ op' = [name |-> "pt_update", pc |-> 0, arg |-> <<history, o>>]
    /\ UNCHANGED <<cfg, drvvars, ihrt_table, hhrt_hist, ahrt_table, next_victim,
                   assigned, written, recent, simvars, autovars>>

NextPT ==
    \/ \E history \in PatternInputs : PTPredict(history)
    \/ \E history \in PatternInputs, o \in {NotTaken, Taken} : PTUpdate(history, o)

SpecPT == Init /\ [][NextPT]_vars

\* ---------------------------------------------- the automata on their own
\* automaton_next applied to every kind with the same outcome
AutoStep(o) ==
    /\ Len(ainputs) < MaxSteps
    /\ astate' = [t \in AutomatonType |-> automaton_next(t, astate[t], o)]
    /\ ainputs' = Append(ainputs, o)
    /\ avisit' = [t \in AutomatonType |->
                     Append(avisit[t], automaton_next(t, astate[t], o))]
    /\ UNCHANGED <<cfg, drvvars, entries, idx, ret, op, calls, ihrt_table, hhrt_hist,
                   ahrt_table, next_victim, assigned, written, recent, simvars>>

NextAuto == \E o \in {NotTaken, Taken} : AutoStep(o)

SpecAuto == Init /\ [][NextAuto]_vars

\* ---------------------------------------------------- the simulation loop
\* Branch addresses of the traces.
TracePCs == { 4 * i : i \in 0 .. MaxTracePC - 1 }

\* One iteration of the loop of main for the record (pc, o): the two-level
\* instance, then the always-taken and the bimodal baseline, each one
\* predicted, scored and updated.
SimEvent(pc, o) ==
    LET g     == HRT_get(HRT, pc)
        p     == PT_predict(entries, g.val)
        u     == HRT_get(g.h, pc)
        old_h == u.val
        new_h == ShiftIn(old_h, o)
    IN  /\ Len(trace) < MaxEvents
        /\ trace' = Append(trace, <<pc, o>>)
        /\ preds' = Append(preds, p)
        /\ stats' = Score(stats, p, o)
        /\ entries' = PT_update(entries, old_h, o)
        /\ idx' = PT_index(old_h)
        /\ SetHRT(HRT_set(u.h, pc, new_h))
        /\ recent' = [recent EXCEPT ![pc] = Remember(@, o)]
        /\ stats_always' = Score(stats_always, AlwaysTaken_predict(pc), o)
        /\ stats_bimodal' = Score(stats_bimodal, Bimodal_predict(bimodal_table, pc), o)
        /\ bimodal_table' = Bimodal_update(bimodal_table, pc, o)
        /\ ret' = p
        /\ op' = [name |-> "event", pc |-> pc, arg |-> o]
        /\ UNCHANGED <<cfg, drvvars, calls, autovars>>

NextSim == \E pc \in TracePCs, o \in {NotTaken, Taken} : SimEvent(pc, o)

SpecSim == Init /\ [][NextSim]_vars

\* --------------------------------------- whole events on conflicting addresses
\* one predict-then-update event of main for any address of PCs
EvtStep(pc, o) ==
    /\ Len(trace) < MaxEvt
    /\ SimEvent(pc, o)

NextEvt == \E pc \in PCs, o \in {NotTaken, Taken} : EvtStep(pc, o)

SpecEvt == Init /\ [][NextEvt]_vars

\* ------------------------------------------------- two ATSim of at_sims
\* all sequences over S of length at most n
SeqsUpTo(S, n) == UNION { [1 .. m -> S] : m \in 0 .. n }

\* Outcome o = taken_int ? Outcome::Taken : Outcome::NotTaken
ToOutcome(taken_int) == IF taken_int # 0 THEN Taken ELSE NotTaken

\* a record of the trace file that both extractions accept
Record(pc, taken_int) == [ok |-> TRUE, pc |-> pc, taken_int |-> taken_int]

\* the first ATSim, held in the variables of the instance
Sim1 == [h |-> HRT, e |-> entries, st |-> stats, pr |-> preds]

SetSim1(S) ==
    /\ SetHRT(S.h)
    /\ entries' = S.e
    /\ stats' = S.st
    /\ preds' = S.pr

\* bool p = sim.pred.predict(pc); g is the result of its one get
ATSim_predict(S, pc) ==
    CHOOSE R \in { [S EXCEPT !.h = g.h, !.pr = Append(@, PT_predict(S.e, g.val))] :
                     g \in {HRT_get(S.h, pc)} } : TRUE

\* if (correct) sim.stats.correct++; sim.stats.total++
ATSim_score(S, o) == [S EXCEPT !.st = Score(@, S.pr[Len(S.pr)], o)]

\* sim.pred.update(pc, o); u is the result of its one get
ATSim_update(S, pc, o) ==
    CHOOSE R \in { [S EXCEPT !.e = PT_update(@, u.val, o),
                             !.h = HRT_set(u.h, pc, ShiftIn(u.val, o))] :
                     u \in {HRT_get(S.h, pc)} } : TRUE

\* the ATSim number i
Sim(i) == IF i = 1 THEN Sim1 ELSE other

\* the ATSim number i takes the state S, the other one keeps its state
SetSim(i, S) ==
    IF i = 1 THEN SetSim1(S) /\ other' = other
    ELSE other' = S /\ UNCHANGED <<ihrt_table, hhrt_hist, ahrt_table, next_victim,
                                   assigned, written, entries, stats, preds>>

\* two instances built from the same ATConfig, a trace file of records
InitIso ==
    /\ cfg \in configs
    /\ Constructed
    /\ tape \in SeqsUpTo({ Record(pc, t) : pc \in TracePCs, t \in {0, 1} }, MaxTape)
    /\ other = Sim1
    /\ drv = [loc |-> "read", sim |-> 0, log |-> <<>>]

\* instance i predicts its next record
IsoPredict(i) ==
    LET S == Sim(i)
        n == S.st.total + 1
    IN  /\ Len(S.pr) = S.st.total
        /\ n <= Len(tape)
        /\ SetSim(i, ATSim_predict(S, tape[n].pc))
        /\ op' = [name |-> "predict", pc |-> tape[n].pc, arg |-> i]
        /\ UNCHANGED <<cfg, tape, drv, idx, ret, recent, calls, trace,
                       stats_always, stats_bimodal, bimodal_table, autovars>>

\* a step of instance i that trains the pattern table of both instances
IsoFinish_shared(i) ==
    LET S == Sim(i)
        n == S.st.total + 1
        o == ToOutcome(tape[n].taken_int)
        u == HRT_get(S.h, tape[n].pc)
    IN  /\ Len(S.pr) = n
        /\ IF i = 1
           THEN /\ SetSim1(ATSim_update(ATSim_score(S, o), tape[n].pc, o))
                /\ other' = [other EXCEPT !.e = PT_update(@, u.val, o)]
           ELSE /\ other' = ATSim_update(ATSim_score(S, o), tape[n].pc, o)
                /\ entries' = PT_update(entries, u.val, o)
                /\ UNCHANGED <<ihrt_table, hhrt_hist, ahrt_table, next_victim,
                               assigned, written, stats, preds>>
        /\ op' = [name |-> "update", pc |-> tape[n].pc, arg |-> i]
        /\ UNCHANGED <<cfg, tape, drv, idx, ret, recent, calls, trace,
                       stats_always, stats_bimodal, bimodal_table, autovars>>

\* instance i scores its prediction and is updated with the outcome
IsoFinish(i) ==
    LET S == Sim(i)
        n == S.st.total + 1
        o == ToOutcome(tape[n].taken_int)
    IN  /\ Len(S.pr) = n
        /\ SetSim(i, ATSim_update(ATSim_score(S, o), tape[n].pc, o))
        /\ op' = [name |-> "update", pc |-> tape[n].pc, arg |-> i]
        /\ UNCHANGED <<cfg, tape, drv, idx, ret, recent, calls, trace,
                       stats_always, stats_bimodal, bimodal_table, autovars>>

NextIso ==
    \/ \E i \in {1, 2} : IsoPredict(i)
    \/ \E i \in {1, 2} : IsoFinish(i)

SpecIso == InitIso /\ [][NextIso]_vars

\* ------------------------------------------------- the loop of main, stepwise
\* a line of the trace file on which an extraction fails
Malformed == [ok |-> FALSE, pc |-> 0, taken_int |-> 0]

\* the lines a trace file can hold: an address with an integer, or a
\* malformed line
TapeRecords ==
    { Record(4 * i, t) : i \in 0 .. MaxTapePC - 1, t \in 0 .. 2 } \cup {Malformed}

\* the entry of the call log for call c of predictor who on record r
LogEntry(who, c, r) ==
    [who |-> who, call |-> c, rec |-> r, pc |-> trace[r][1], o |-> trace[r][2]]

\* main before the loop: at_sims holds two instances of cfg
InitDrv ==
    /\ cfg \in configs
    /\ Constructed
    /\ tape \in SeqsUpTo(TapeRecords, MaxTape)
    /\ other = Sim1
    /\ drv = [loc |-> "read", sim |-> 0, log |-> <<>>]

\* the variables no step of the loop touches besides those of SetSim
loopframe == <<cfg, tape, idx, ret, op, recent, calls, autovars>>

\* both extractions succeed: the record is decoded and the for loop entered
DrvRead ==
    LET n == Len(trace) + 1
    IN  /\ drv.loc = "read"
        /\ n <= Len(tape)
        /\ tape[n].ok
        /\ trace' = Append(trace, <<tape[n].pc, ToOutcome(tape[n].taken_int)>>)
        /\ drv' = [drv EXCEPT !.loc = "predict", !.sim = 1]
        /\ UNCHANGED <<loopframe, other, ihrt_table, hhrt_hist, ahrt_table, next_victim,
                       assigned, written, entries, stats, preds,
                       stats_always, stats_bimodal, bimodal_table>>

\* an extraction fails (end of file or malformed line): break
DrvBreak ==
    LET n == Len(trace) + 1
    IN  /\ drv.loc = "read"
        /\ IF n > Len(tape) THEN TRUE ELSE ~tape[n].ok
        /\ drv' = [drv EXCEPT !.loc = "done"]
        /\ UNCHANGED <<loopframe, other, ihrt_table, hhrt_hist, ahrt_table, next_victim,
                       assigned, written, entries, stats, preds, trace,
                       stats_always, stats_bimodal, bimodal_table>>

\* the name of an element of at_sims in the call log
SimName(i) == IF i = 1 THEN "at1" ELSE "at2"

\* bool p = sim.pred.predict(pc)
DrvPredict ==
    LET r == Len(trace)
    IN  /\ drv.loc = "predict"
        /\ \E S \in {ATSim_predict(Sim(drv.sim), trace[r][1])} : SetSim(drv.sim, S)
        /\ drv' = [drv EXCEPT !.loc = "score",
                              !.log = Append(@, LogEntry(SimName(drv.sim), "predict", r))]
        /\ UNCHANGED <<loopframe, trace, stats_always, stats_bimodal, bimodal_table>>

\* bool correct = ...; if (correct) sim.stats.correct++; sim.stats.total++
DrvScore ==
    LET r == Len(trace)
    IN  /\ drv.loc = "score"
        /\ \E S \in {ATSim_score(Sim(drv.sim), trace[r][2])} : SetSim(drv.sim, S)
        /\ drv' = [drv EXCEPT !.loc = "update",
                              !.log = Append(@, LogEntry(SimName(drv.sim), "score", r))]
        /\ UNCHANGED <<loopframe, trace, stats_always, stats_bimodal, bimodal_table>>

\* an update after which the for loop over at_sims ends at once
DrvUpdate_once ==
    LET r == Len(trace)
    IN  /\ drv.loc = "update"
        /\ \E S \in {ATSim_update(Sim(drv.sim), trace[r][1], trace[r][2])} :
              SetSim(drv.sim, S)
        /\ drv' = [loc |-> "always", sim |-> 0,
                   log |-> Append(drv.log, LogEntry(SimName(drv.sim), "update", r))]
        /\ UNCHANGED <<loopframe, trace, stats_always, stats_bimodal, bimodal_table>>

\* sim.pred.update(pc, o); then the next element of at_sims, or the baselines
DrvUpdate ==
    LET r == Len(trace)
    IN  /\ drv.loc = "update"
        /\ \E S \in {ATSim_update(Sim(drv.sim), trace[r][1], trace[r][2])} :
              SetSim(drv.sim, S)
        /\ drv' = [loc |-> IF drv.sim < 2 THEN "predict" ELSE "always",
                   sim |-> IF drv.sim < 2 THEN drv.sim + 1 ELSE 0,
                   log |-> Append(drv.log, LogEntry(SimName(drv.sim), "update", r))]
        /\ UNCHANGED <<loopframe, trace, stats_always, stats_bimodal, bimodal_table>>

\* the always-taken block: predict, score, update
DrvAlways ==
    LET r == Len(trace)
    IN  /\ drv.loc = "always"
        /\ stats_always' = Score(stats_always, AlwaysTaken_predict(trace[r][1]), trace[r][2])
        /\ drv' = [drv EXCEPT !.loc = "bimodal",
                              !.log = @ \o << LogEntry("always", "predict", r),
                                              LogEntry("always", "score", r),
                                              LogEntry("always", "update", r) >>]
        /\ UNCHANGED <<loopframe, other, ihrt_table, hhrt_hist, ahrt_table, next_victim,
                       assigned, written, entries, stats, preds, trace,
                       stats_bimodal, bimodal_table>>

\* the bimodal block: predict, score, update; then the next record
DrvBimodal ==
    LET r == Len(trace)
    IN  /\ drv.loc = "bimodal"
        /\ stats_bimodal' =
              Score(stats_bimodal, Bimodal_predict(bimodal_table, trace[r][1]), trace[r][2])
        /\ bimodal_table' = Bimodal_update(bimodal_table, trace[r][1], trace[r][2])
        /\ drv' = [drv EXCEPT !.loc = "read",
                              !.log = @ \o << LogEntry("bimodal", "predict", r),
                                              LogEntry("bimodal", "score", r),
                                              LogEntry("bimodal", "update", r) >>]
        /\ UNCHANGED <<loopframe, other, ihrt_table, hhrt_hist, ahrt_table, next_victim,
                       assigned, written, entries, stats, preds, trace, stats_always>>

NextDrv ==
    \/ DrvRead
    \/ DrvBreak
    \/ DrvPredict
    \/ DrvScore
    \/ DrvUpdate
    \/ DrvAlways
    \/ DrvBimodal

SpecDrv == InitDrv /\ [][NextDrv]_vars

\* main is one sequential thread: a step that can be taken is taken
SpecDrvLive == InitDrv /\ [][NextDrv]_vars /\ WF_vars(NextDrv)

\* ------------------------------- an exhaustive instance beside the instance
\* an ATSim whose predictor was built with HRTKind::IHRT, same k and automaton
FreshExh ==
    [h  |-> [it |-> <<>>, hh |-> <<>>, at |-> <<>>, nv |-> <<>>, as |-> <<>>, wr |-> {}],
     e  |-> [i \in 0 .. Pow2(cfg.history_bits) - 1 |-> automaton_init_state(cfg.automaton)],
     st |-> Stats0,
     pr |-> <<>>]

\* TwoLevelATPredictor::predict(pc) with hrt_ an IHRTTable
Exh_predict(S, pc) ==
    [S EXCEPT !.pr = Append(@, PT_predict(S.e, IHRT_get(S.h.it, pc)))]

\* TwoLevelATPredictor::update(pc, o) with hrt_ an IHRTTable
Exh_update(S, pc, o) ==
    LET old_h == IHRT_get(S.h.it, pc)
    IN  [S EXCEPT !.e = PT_update(@, old_h, o),
                  !.h.it = IHRT_set(@, pc, ShiftIn(old_h, o))]

\* at_sims holds the instance of cfg and an exhaustive one of the same k
\* and automaton
InitRef ==
    /\ cfg \in configs
    /\ Constructed
    /\ tape = <<>>
    /\ other = FreshExh
    /\ drv = [loc |-> "read", sim |-> 0, log |-> <<>>]

\* one record of the loop of main for the two elements of at_sims
RefEvent(pc, o) ==
    /\ Len(trace) < MaxEvt
    /\ trace' = Append(trace, <<pc, o>>)
    /\ \E S \in {ATSim_update(ATSim_score(ATSim_predict(Sim1, pc), o), pc, o)} : SetSim1(S)
    /\ other' = Exh_update(ATSim_score(Exh_predict(other, pc), o), pc, o)
    /\ op' = [name |-> "event", pc |-> pc, arg |-> o]
    /\ UNCHANGED <<cfg, tape, drv, idx, ret, recent, calls, stats_always,
                   stats_bimodal, bimodal_table, autovars>>

NextRef == \E pc \in PCs, o \in {NotTaken, Taken} : RefEvent(pc, o)

SpecRef == InitRef /\ [][NextRef]_vars

\* ------------------------------------------- construction from any ATConfig
\* ATConfig records a caller can pass that break a capacity rule: a slot
\* count that is no power of two, a set count that is no power of two, an
\* entry count that the way count does not divide.
bad_configs ==
    { ATConfig("HHRT", 3, 1, 2, "A2"),
      ATConfig("AHRT", 6, 2, 2, "A2"),
      ATConfig("AHRT", 3, 2, 1, "LastTime") }

\* TwoLevelATPredictor(cfg) for a record of either kind; no constructor
\* has a failing path, so the members are set as for any other record
InitAny ==
    /\ cfg \in configs \cup bad_configs
    /\ Constructed
    /\ Idle

SpecCtor == InitAny /\ [][NextSim]_vars

TypeOK ==
    /\ cfg \in configs
    /\ idx \in 0 .. Pow2(history_bits) - 1

\* ======================================================== properties
\* the step just taken is a call of the named operation
Called(name) == calls' = calls + 1 /\ op'.name = name

\* the lines of the associative table, as <<set, way>> pairs
Lines == { <<s, w>> : s \in 0 .. sets - 1, w \in 0 .. ways - 1 }

\* the lines whose content differs between the two states of a step
ChangedLines == { l \in Lines : ahrt_table'[l[1]][l[2]] # ahrt_table[l[1]][l[2]] }

\* ---------------------------------------------------------------- C1
\* C1 (as stated): predict(address) mutates no state of the instance, for
\* every history-table discipline: history table (histories, valid flags,
\* tags, cursors) and pattern table are unchanged.
C1_PredictMutatesNothing ==
    [][Called("predict") =>
         UNCHANGED <<ihrt_table, hhrt_hist, ahrt_table, next_victim, entries>>]_vars

\* C1 (amended): predict(address) never changes the pattern table, the
\* IHRT map, the HHRT slots or any history value of an AHRT line, and a
\* predict repeated on the same address returns the same value and changes
\* nothing.  On AHRT a predict of a resident address changes nothing; a
\* predict of a non-resident address stamps valid and tag on the line under
\* the set's cursor and advances that cursor, and nothing else.
C1_PredictFrame ==
    [][Called("predict") =>
         LET pc  == op'.pc
             si  == AHRT_set_index(pc)
         IN  /\ UNCHANGED <<ihrt_table, hhrt_hist, entries>>
             /\ cfg.hrt_kind = "AHRT" =>
                  /\ \A l \in Lines :
                        ahrt_table'[l[1]][l[2]].history = ahrt_table[l[1]][l[2]].history
                  /\ AHRT_hits(ahrt_table, pc) # {} =>
                        UNCHANGED <<ahrt_table, next_victim>>
                  /\ AHRT_hits(ahrt_table, pc) = {} =>
                        /\ ChangedLines \subseteq {<<si, next_victim[si]>>}
                        /\ ahrt_table'[si][next_victim[si]].valid
                        /\ ahrt_table'[si][next_victim[si]].tag = AHRT_tag_for(pc)
                        /\ next_victim' =
                             [next_victim EXCEPT ![si] = (@ + 1) % ways]
             /\ (op.name = "predict" /\ op.pc = pc) =>
                  /\ ret' = ret
                  /\ UNCHANGED <<ihrt_table, hhrt_hist, ahrt_table, next_victim, entries>>]_vars

\* a predict on a fresh associative table has installed its address
C1_Witness ==
    /\ cfg.hrt_kind = "AHRT"
    /\ calls = 1
    /\ op.name = "predict"
    /\ \E w \in 0 .. ways - 1 :
          /\ ahrt_table[AHRT_set_index(op.pc)][w].valid
          /\ ahrt_table[AHRT_set_index(op.pc)][w].tag = AHRT_tag_for(op.pc)
    /\ next_victim[AHRT_set_index(op.pc)] = 1 % ways

\* ---------------------------------------------------------------- C2
\* C2: when predict(a) is immediately followed by update(a, o), update
\* transitions exactly the pattern-table entry indexed by the pre-shift
\* history, which is the entry whose state produced the prediction; every
\* other entry is untouched, and the history of a read afterwards is the
\* shifted one.
C2_PreShiftEntry ==
    [][(op.name = "predict" /\ Called("update") /\ op'.pc = op.pc) =>
         LET pc    == op.pc
             old_h == HRT_get(HRT, pc).val
             bit   == IF op'.arg = Taken THEN 1 ELSE 0
         IN  /\ idx = old_h % Pow2(history_bits)
             /\ ret = automaton_predict(cfg.automaton, entries[idx])
             /\ idx' = idx
             /\ entries' = [entries EXCEPT
                              ![idx] = automaton_next(cfg.automaton, @, op'.arg)]
             /\ HRT_get(HRT', pc).val = (2 * old_h + bit) % Pow2(history_bits)]_vars

\* one predict of a non-aliased address on a fresh associative table, then
\* one update of the same address with NotTaken: a single line is valid and
\* the entry of the all-ones history has left its initial state
C2_Witness ==
    /\ cfg.hrt_kind = "AHRT"
    /\ history_bits = 2
    /\ calls = 2
    /\ op = [name |-> "update", pc |-> 4, arg |-> NotTaken]
    /\ \A p \in PCs : Len(recent[p]) = (IF p = 4 THEN 1 ELSE 0)
    /\ Cardinality({l \in Lines : ahrt_table[l[1]][l[2]].valid}) = 1
    /\ idx = Pow2(history_bits) - 1
    /\ entries[idx] # automaton_init_state(cfg.automaton)
    /\ ret = Pow2(history_bits) - 2

\* ---------------------------------------------------------------- C3
\* C3: when an access misses in a set of the associative table whose W
\* lines are all valid, exactly one line is evicted, the least recently
\* assigned one (after W installs in a fresh set: the first installed); a
\* get that misses returns the history last stored in the victim line, and
\* no miss resets a history: get changes no history value, set changes only
\* the history of the line it resolves to.
C3_StaleHistory ==
    [][(cfg.hrt_kind = "AHRT" /\ (Called("get") \/ Called("set"))
          /\ AHRT_hits(ahrt_table, op'.pc) = {}) =>
         LET pc == op'.pc
             si == AHRT_set_index(pc)
             full == \A w \in 0 .. ways - 1 : ahrt_table[si][w].valid
             v  == IF full THEN Head(assigned[si]) ELSE Len(assigned[si])
         IN  /\ ChangedLines \subseteq {<<si, v>>}
             /\ ahrt_table'[si][v].valid
             /\ ahrt_table'[si][v].tag = AHRT_tag_for(pc)
             /\ full => ahrt_table[si][v].tag # AHRT_tag_for(pc)
             /\ Called("get") =>
                  /\ ret' = ahrt_table[si][v].history
                  /\ ahrt_table'[si][v].history = ahrt_table[si][v].history
             /\ Called("set") =>
                  ahrt_table'[si][v].history = op'.arg % HistWidth]_vars

\* a get of a (W+1)-th address of a set returned a history that a set had
\* stored for the first installed address
C3_Witness ==
    /\ cfg.hrt_kind = "AHRT"
    /\ op.name = "get"
    /\ calls = ways + 1
    /\ ret # Pow2(history_bits) - 1
    /\ LET si == AHRT_set_index(op.pc)
       IN  /\ \A w \in 0 .. ways - 1 : ahrt_table[si][w].valid
           /\ ahrt_table[si][0].tag = AHRT_tag_for(op.pc)
           /\ next_victim[si] = 1 % ways
           /\ \E e \in written :
                 /\ AHRT_tag_for(e[1]) # AHRT_tag_for(op.pc)
                 /\ e[2] = <<si, 0>>

\* ---------------------------------------------------------------- C4
\* C4: round-robin cursor of the associative table.  An access that misses
\* in set s assigns the line under the cursor of s and advances the cursor
\* to (cursor + 1) mod W; a hit leaves the cursor alone; cursors of other
\* sets never move; no line other than the one resolved changes; every
\* cursor is in 0..W-1 in every reachable state.
C4_CursorStep ==
    (cfg.hrt_kind = "AHRT" /\ (Called("get") \/ Called("set"))) =>
         LET pc  == op'.pc
             si  == AHRT_set_index(pc)
             hit == AHRT_hits(ahrt_table, pc)
         IN  /\ \A s \in 0 .. sets - 1 : s # si => next_victim'[s] = next_victim[s]
             /\ hit # {} =>
                  /\ next_victim'[si] = next_victim[si]
                  /\ ChangedLines \subseteq {<<si, w>> : w \in hit}
                  /\ Called("get") => ChangedLines = {}
             /\ hit = {} =>
                  /\ next_victim'[si] = (next_victim[si] + 1) % ways
                  /\ ChangedLines = {<<si, next_victim[si]>>}
                  /\ ahrt_table'[si][next_victim[si]].tag = AHRT_tag_for(pc)

C4_CursorRange ==
    cfg.hrt_kind = "AHRT" =>
        /\ DOMAIN next_victim = 0 .. sets - 1
        /\ \A s \in 0 .. sets - 1 : next_victim[s] \in 0 .. ways - 1

C4_RoundRobinCursor == [][C4_CursorStep]_vars /\ []C4_CursorRange

\* a cursor has wrapped around: W + 1 misses in one set of a 2-way table
C4_Witness ==
    /\ cfg.hrt_kind = "AHRT"
    /\ ways = 2
    /\ op.name \in {"get", "set"}
    /\ calls = 4
    /\ \E s \in 0 .. sets - 1 :
          /\ next_victim[s] = 1
          /\ Len(assigned[s]) = 2
          /\ assigned[s] = <<1, 0>>

\* ---------------------------------------------------------------- C5
\* C5: in every reachable state of the associative table each set holds at
\* most one valid line per tag and at most W valid lines, and a valid line
\* never becomes invalid again.
C5_SetShape ==
    cfg.hrt_kind = "AHRT" =>
        \A s \in 0 .. sets - 1 :
            /\ DOMAIN ahrt_table[s] = 0 .. ways - 1
            /\ Cardinality({w \in DOMAIN ahrt_table[s] : ahrt_table[s][w].valid}) <= ways
            /\ \A w1, w2 \in DOMAIN ahrt_table[s] :
                  (ahrt_table[s][w1].valid /\ ahrt_table[s][w2].valid
                     /\ ahrt_table[s][w1].tag = ahrt_table[s][w2].tag) => w1 = w2

C5_ValidStays ==
    cfg.hrt_kind = "AHRT" =>
        \A l \in Lines : ahrt_table[l[1]][l[2]].valid => ahrt_table'[l[1]][l[2]].valid

C5_SetInvariant == []C5_SetShape /\ [][C5_ValidStays]_vars

\* a full set has had a line reassigned to a new tag
C5_Witness ==
    /\ cfg.hrt_kind = "AHRT"
    /\ op.name \in {"get", "set"}
    /\ \E s \in 0 .. sets - 1 :
          /\ \A w \in 0 .. ways - 1 : ahrt_table[s][w].valid
          /\ next_victim[s] = 1 % ways
          /\ calls = ways + 1

\* ---------------------------------------------------------------- C6
\* C6: history values never exceed k bits.  In every state reachable by
\* predict/update calls, every history stored in the history table and
\* every value HistoryTable::get returns lies in 0 .. 2^k - 1, the all-ones
\* default included.
C6_HistoryRange ==
    LET range == 0 .. Pow2(history_bits) - 1
    IN  /\ \A p \in DOMAIN ihrt_table : ihrt_table[p] \in range
        /\ \A i \in DOMAIN hhrt_hist : hhrt_hist[i] \in range
        /\ \A s \in DOMAIN ahrt_table : \A w \in DOMAIN ahrt_table[s] :
              ahrt_table[s][w].history \in range
        /\ \A p \in PCs : HRT_get(HRT, p).val \in range
        /\ op.name = "update" => ret \in range

\* an update shifted NotTaken into the all-ones default: the bit pushed
\* out at the top was cut off
C6_Witness ==
    /\ history_bits = 2
    /\ op.name = "update"
    /\ op.arg = NotTaken
    /\ calls = 1
    /\ HRT_get(HRT, op.pc).val = 2

\* ---------------------------------------------------------------- C7
\* C7: the history register is a k-bit shift register, newest outcome in
\* the low bit.  update(a, o) makes the history of a equal to
\* ((old << 1) | bit(o)) mod 2^k; on the exhaustive table, after n updates
\* of a, bit i (i < min(n, k)) is the outcome of a's (i+1)-th most recent
\* event and the k - n high bits are still 1.
C7_ShiftStep ==
    Called("update") =>
        HRT_get(HRT', op'.pc).val =
            (2 * HRT_get(HRT, op'.pc).val + (IF op'.arg = Taken THEN 1 ELSE 0))
                % Pow2(history_bits)

C7_Bits ==
    cfg.hrt_kind = "IHRT" =>
        \A p \in PCs :
            \A i \in 0 .. history_bits - 1 :
                Bit(IHRT_get(ihrt_table, p), i) =
                    (IF i < Len(recent[p])
                     THEN (IF recent[p][i + 1] = Taken THEN 1 ELSE 0)
                     ELSE 1)

C7_ShiftRegister == [][C7_ShiftStep]_vars /\ []C7_Bits

\* two addresses of an exhaustive table, one updated NotTaken then Taken,
\* the other updated once with NotTaken
C7_Witness ==
    /\ cfg.hrt_kind = "IHRT"
    /\ history_bits = 2
    /\ \E a, b \in PCs :
          /\ a # b
          /\ recent[a] = <<Taken, NotTaken>>
          /\ ihrt_table[a] = 1
          /\ recent[b] = <<NotTaken>>
          /\ ihrt_table[b] = 2

\* ---------------------------------------------------------------- C8
\* C8 (as stated): for every variant and every k, set(a, h) followed
\* immediately by get(a) returns h masked to k bits, for every input h.
C8_RoundTripMasked ==
    [][(op.name = "set" /\ Called("get") /\ op'.pc = op.pc) =>
         ret' = BitAnd(op.arg, Pow2(history_bits) - 1)]_vars

\* C8 (amended): for every variant and every k, set(a, h) followed
\* immediately by get(a) returns exactly the 16-bit value h that was
\* passed; no table masks, so the result is h & (2^k - 1) when h < 2^k
\* and is h itself, above the k-bit range, otherwise.
C8_RoundTrip ==
    [][(op.name = "set" /\ Called("get") /\ op'.pc = op.pc) =>
         /\ ret' = op.arg % HistWidth
         /\ op.arg < Pow2(history_bits) =>
               ret' = BitAnd(op.arg, Pow2(history_bits) - 1)
         /\ op.arg >= Pow2(history_bits) =>
               ret' # BitAnd(op.arg, Pow2(history_bits) - 1)]_vars

\* a get returned the k-bit value that the one set before it had stored
\* for the same address
C8_Witness ==
    /\ op.name = "get"
    /\ calls = 2
    /\ written # {}
    /\ \A e \in written : e[1] = op.pc
    /\ ret < Pow2(history_bits) - 1

\* ---------------------------------------------------------------- C9
\* the entry of the history table that an access of pc resolves to
Resolved(pc) ==
    IF cfg.hrt_kind = "IHRT" THEN pc
    ELSE IF cfg.hrt_kind = "HHRT" THEN HHRT_index(pc)
    ELSE LET a == AHRT_access(ahrt_table, next_victim, pc) IN <<a.set, a.way>>

\* C9: get returns the all-ones default 2^k - 1 whenever the entry it
\* resolves to has not been written by set (address never set, slot never
\* written, line never written); on a freshly constructed table get
\* returns 2^k - 1 for every address.
C9_DefaultStep ==
    (Called("get") /\ \A e \in written : e[2] # Resolved(op'.pc)) =>
        ret' = Pow2(history_bits) - 1

C9_Fresh ==
    calls = 0 => \A p \in PCs : HRT_get(HRT, p).val = Pow2(history_bits) - 1

C9_DefaultHistory == [][C9_DefaultStep]_vars /\ []C9_Fresh

\* after some set, a get that resolved to an entry no set has written
\* returned the default
C9_Witness ==
    /\ op.name = "get"
    /\ written # {}
    /\ \A e \in written : e[2] # Resolved(op.pc)
    /\ ret = Pow2(history_bits) - 1

\* --------------------------------------------------------------- C10
\* C10: the slot of an address in the hashed table is (address >> 2) mod N
\* and no identity is checked: set(a, h) writes h to slot(a) and to no
\* other slot, so get(b) returns h for every b with slot(b) = slot(a);
\* get changes no slot; capacity() is constantly N.
C10_Slot ==
    cfg.hrt_kind = "HHRT" =>
        /\ \A p \in PCs : HHRT_index(p) = (p \div 4) % cfg.hrt_entries
        /\ DOMAIN hhrt_hist = 0 .. cfg.hrt_entries - 1
        /\ HRT_capacity_entries(HRT) = cfg.hrt_entries

C10_Step ==
    cfg.hrt_kind = "HHRT" =>
        /\ Called("set") =>
              /\ hhrt_hist' = [hhrt_hist EXCEPT
                                 ![(op'.pc \div 4) % cfg.hrt_entries] = op'.arg % HistWidth]
              /\ \A b \in PCs :
                    (b \div 4) % cfg.hrt_entries = (op'.pc \div 4) % cfg.hrt_entries
                        => HRT_get(HRT', b).val = op'.arg % HistWidth
        /\ Called("get") =>
              /\ hhrt_hist' = hhrt_hist
              /\ (op.name = "set"
                    /\ (op.pc \div 4) % cfg.hrt_entries = (op'.pc \div 4) % cfg.hrt_entries)
                   => ret' = op.arg % HistWidth

C10_HashedInterference == [][C10_Step]_vars /\ []C10_Slot

\* in a 2-slot hashed table a get of one address returned what the set
\* before it had stored for a different address of the same slot
C10_Witness ==
    /\ cfg.hrt_kind = "HHRT"
    /\ cfg.hrt_entries = 2
    /\ op.name = "get"
    /\ calls = 2
    /\ written # {}
    /\ \A e \in written : e[1] \div 4 # op.pc \div 4 /\ e[2] = HHRT_index(op.pc)
    /\ ret # Pow2(history_bits) - 1

\* --------------------------------------------------------------- C11
\* C11: exhaustive table.  A get of an address never set returns the
\* default and inserts nothing (capacity unchanged); set inserts or
\* overwrites the one address; capacity() is the number of distinct
\* addresses set so far.  For the two-level predictor: predict changes
\* neither table nor capacity, and capacity is the number of distinct
\* addresses updated so far.
C11_Step ==
    cfg.hrt_kind = "IHRT" =>
        /\ Called("predict") =>
              /\ ihrt_table' = ihrt_table
              /\ IHRT_capacity_entries(ihrt_table') = IHRT_capacity_entries(ihrt_table)
              /\ op'.pc \notin DOMAIN ihrt_table =>
                    idx' = Pow2(history_bits) - 1
        /\ Called("update") =>
              /\ DOMAIN ihrt_table' = DOMAIN ihrt_table \cup {op'.pc}
              /\ ihrt_table'[op'.pc] = ret'
              /\ \A p \in DOMAIN ihrt_table : p # op'.pc => ihrt_table'[p] = ihrt_table[p]
              /\ IHRT_capacity_entries(ihrt_table') =
                    IHRT_capacity_entries(ihrt_table)
                      + (IF op'.pc \in DOMAIN ihrt_table THEN 0 ELSE 1)

C11_Capacity ==
    cfg.hrt_kind = "IHRT" =>
        /\ HRT_capacity_entries(HRT) = Cardinality({e[1] : e \in written})
        /\ HRT_capacity_entries(HRT) = Cardinality({p \in PCs : recent[p] # <<>>})
        /\ \A p \in PCs : HRT_get(HRT, p).h = HRT

C11_ExhaustiveCapacity == [][C11_Step]_vars /\ []C11_Capacity

\* after two addresses were updated, a third one that was only predicted
\* is not in the exhaustive table
C11_Witness ==
    /\ cfg.hrt_kind = "IHRT"
    /\ op.name = "predict"
    /\ op.pc \notin DOMAIN ihrt_table
    /\ ret = TRUE
    /\ IHRT_capacity_entries(ihrt_table) = 2
    /\ calls = 3

\* --------------------------------------------------------------- C12
\* the history a k-bit register holds after shifting the outcomes r
\* (newest first) into the all-ones default
RECURSIVE Replay(_)
Replay(r) ==
    IF r = <<>> THEN Pow2(history_bits) - 1
    ELSE (2 * Replay(Tail(r)) + (IF Head(r) = Taken THEN 1 ELSE 0)) % Pow2(history_bits)

\* C12: exhaustive discipline has no interference.  update(b, o) leaves
\* the history of every address a # b as it was (present or absent), and
\* after any sequence of events the history of a is the one obtained from
\* the outcomes of a's own events alone.
C12_OthersKept ==
    (cfg.hrt_kind = "IHRT" /\ Called("update")) =>
        \A a \in PCs : a # op'.pc =>
            /\ (a \in DOMAIN ihrt_table') = (a \in DOMAIN ihrt_table)
            /\ HRT_get(HRT', a).val = HRT_get(HRT, a).val

C12_OwnOutcomes ==
    cfg.hrt_kind = "IHRT" =>
        \A a \in PCs : HRT_get(HRT, a).val = Replay(recent[a])

C12_NoInterference == [][C12_OthersKept]_vars /\ []C12_OwnOutcomes

\* addresses 0 and 1 (same word) and 4 were updated with different
\* outcomes and hold different histories in the exhaustive table
C12_Witness ==
    /\ cfg.hrt_kind = "IHRT"
    /\ history_bits = 2
    /\ op.name = "update"
    /\ recent[0] = <<NotTaken>>
    /\ recent[1] = <<Taken>>
    /\ recent[4] = <<NotTaken, NotTaken>>
    /\ ihrt_table[0] = 2
    /\ ihrt_table[1] = 3
    /\ ihrt_table[4] = 0

\* --------------------------------------------------------------- C13
\* set and tag of an address, by arithmetic on the word address
WordSet(pc) == (pc \div 4) % sets
WordTag(pc) == (pc \div 4) \div sets

\* ways of T holding a valid line of pc's set with pc's tag
ResidentWays(T, pc) ==
    { w \in 0 .. ways - 1 : T[WordSet(pc)][w].valid /\ T[WordSet(pc)][w].tag = WordTag(pc) }

C14_Size ==
    /\ PT_num_entries(entries) = Pow2(history_bits)
    /\ DOMAIN entries = 0 .. Pow2(history_bits) - 1

C14_Fresh ==
    calls = 0 =>
        /\ \A i \in DOMAIN entries :
              entries[i] = (IF cfg.automaton = "LastTime" THEN 1 ELSE 3)
        /\ \A i \in DOMAIN entries :
              entries[i] = automaton_init_state(cfg.automaton)
        /\ \A h \in 0 .. 2 * Pow2(history_bits) : PT_predict(entries, h) = TRUE

C14_Construction == C14_Size /\ C14_Fresh

\* updates have moved entries of a 4-entry table to not-taken states and
\* the table still has its 4 entries
C14_Witness ==
    /\ history_bits = 2
    /\ op.name = "update"
    /\ calls = MaxCalls
    /\ PT_num_entries(entries) = 4
    /\ \E i, j \in DOMAIN entries :
          /\ i # j
          /\ ~automaton_predict(cfg.automaton, entries[i])
          /\ entries[j] # automaton_init_state(cfg.automaton)

\* --------------------------------------------------------------- C15
\* C15: PatternTable.update(history, outcome) replaces only the entry at
\* index history & (2^k - 1), i.e. history mod 2^k, with
\* next_state(kind, old_state, outcome) and leaves every other entry as it
\* was; PatternTable.predict(history) returns
\* predicts_taken(kind, entries[history mod 2^k]) and changes no entry, also
\* when history has bits set above bit k-1.
C15_UpdateStep ==
    Called("pt_update") =>
        LET h == op'.arg[1]
            o == op'.arg[2]
            i == h % Pow2(history_bits)
        IN  /\ entries'[i] = automaton_next(cfg.automaton, entries[i], o)
            /\ \A j \in DOMAIN entries : j # i => entries'[j] = entries[j]
            /\ DOMAIN entries' = DOMAIN entries

C15_PredictStep ==
    Called("pt_predict") =>
        LET h == op'.arg[1]
            i == h % Pow2(history_bits)
        IN  /\ ret' = automaton_predict(cfg.automaton, entries[i])
            /\ entries' = entries

C15_PatternFrame == [][C15_UpdateStep /\ C15_PredictStep]_vars

\* an update with a history that has a bit above bit k-1 set has just
\* moved the entry at index history mod 2^k to a not-taken state
C15_Witness ==
    /\ op.name = "pt_update"
    /\ op.arg[1] > mask
    /\ op.arg[1] % Pow2(history_bits) = Pow2(history_bits) - 1
    /\ ~automaton_predict(cfg.automaton, entries[Pow2(history_bits) - 1])
    /\ \A j \in DOMAIN entries :
          j # Pow2(history_bits) - 1 => automaton_predict(cfg.automaton, entries[j])

\* --------------------------------------------------------------- C16
\* the legal states of an automaton kind
LegalStates(t) == IF t = "LastTime" THEN 0 .. 1 ELSE 0 .. 3

\* C16: automaton state range.  The initial state of every kind is legal
\* and next_state maps a legal state to a legal state for either outcome,
\* so any sequence of transitions from the initial state stays in {0,1}
\* for LastTime and in {0,1,2,3} for the counter kinds; in every reachable
\* state of a simulation every pattern-table entry and every per-address
\* baseline counter is within that range.
C16_Closed ==
    \A t \in AutomatonType :
        /\ automaton_init_state(t) \in LegalStates(t)
        /\ \A s \in LegalStates(t), o \in {NotTaken, Taken} :
              automaton_next(t, s, o) \in LegalStates(t)

C16_StateRange ==
    /\ C16_Closed
    /\ \A i \in DOMAIN entries : entries[i] \in LegalStates(cfg.automaton)
    /\ \A p \in DOMAIN bimodal_table : bimodal_table[p] \in 0 .. 3

\* four not-taken events on one address have driven its baseline counter
\* from 3 down to 0 and held it there, and a pattern-table counter is at 0
C16_Witness ==
    /\ cfg.automaton # "LastTime"
    /\ trace = [n \in 1 .. 4 |-> <<0, NotTaken>>]
    /\ bimodal_table[0] = 0
    /\ \E i \in DOMAIN entries : entries[i] = 0

\* --------------------------------------------------------------- C17
\* the counter kinds
Counters == {"A2", "A3", "A4"}

\* the predictions of a sequence of visited states
Predictions(t, v) == [n \in 1 .. Len(v) |-> automaton_predict(t, v[n])]

\* C17: the counter automaton is a 2-bit saturating counter:
\* next_state(s, Taken) = min(3, s+1), next_state(s, NotTaken) = max(0, s-1),
\* the prediction is Taken iff s >= 2; from state 3 the inputs Taken x4,
\* NotTaken x4 visit exactly the states 3,3,3,3,2,1,0,0 whose predictions
\* are Taken x5, NotTaken x3.
C17_Function ==
    \A t \in Counters, s \in 0 .. 3 :
        /\ automaton_next(t, s, Taken) = MinOf({3, s + 1})
        /\ automaton_next(t, s, NotTaken) = -MinOf({0, -(s - 1)})
        /\ automaton_predict(t, s) = (s >= 2)

C17_Sequence ==
    ainputs = <<Taken, Taken, Taken, Taken, NotTaken, NotTaken, NotTaken, NotTaken>> =>
        \A t \in Counters :
            /\ automaton_init_state(t) = 3
            /\ avisit[t] = <<3, 3, 3, 3, 2, 1, 0, 0>>
            /\ Predictions(t, avisit[t]) =
                  <<TRUE, TRUE, TRUE, TRUE, TRUE, FALSE, FALSE, FALSE>>

C17_SaturatingCounter == C17_Function /\ C17_Sequence

\* the eight inputs have been applied and the counter rests at 0
C17_Witness ==
    /\ ainputs = <<Taken, Taken, Taken, Taken, NotTaken, NotTaken, NotTaken, NotTaken>>
    /\ astate["A2"] = 0
    /\ Len(avisit["A2"]) = 8

\* --------------------------------------------------------------- C18
\* C18: LastTime automaton.  The initial state predicts Taken; after any
\* non-empty sequence of transitions the prediction equals the most
\* recent outcome, whatever the earlier outcomes and the previous state.
C18_Function ==
    /\ automaton_predict("LastTime", automaton_init_state("LastTime"))
    /\ \A s \in 0 .. 3, o \in {NotTaken, Taken} :
          automaton_predict("LastTime", automaton_next("LastTime", s, o)) = (o = Taken)

C18_Run ==
    IF ainputs = <<>>
    THEN automaton_predict("LastTime", astate["LastTime"])
    ELSE automaton_predict("LastTime", astate["LastTime"])
            = (ainputs[Len(ainputs)] = Taken)

C18_LastOutcome == C18_Function /\ C18_Run

\* taken outcomes followed by a not-taken one: the automaton predicts
\* not taken
C18_Witness ==
    /\ ainputs = <<Taken, Taken, NotTaken>>
    /\ ~automaton_predict("LastTime", astate["LastTime"])

\* --------------------------------------------------------------- C19
\* C19: A2, A3 and A4 behave identically.  They have the same initial
\* state and, for every state and outcome, the same prediction and next
\* state; a predictor configured with one counter kind starts with the
\* pattern table any other counter kind would start with, and each of its
\* events yields the prediction and the pattern table the other counter
\* kinds would yield from the same state, so the predictions and table
\* states agree on every trace.
C19_Function ==
    \A t, u \in Counters :
        /\ automaton_init_state(t) = automaton_init_state(u)
        /\ \A s \in 0 .. 3 :
              /\ automaton_predict(t, s) = automaton_predict(u, s)
              /\ \A o \in {NotTaken, Taken} :
                    automaton_next(t, s, o) = automaton_next(u, s, o)

C19_Start ==
    (cfg.automaton \in Counters /\ trace = <<>>) =>
        \A t \in Counters, i \in DOMAIN entries : entries[i] = automaton_init_state(t)

C19_Event ==
    (cfg.automaton \in Counters /\ trace' = Append(trace, <<op'.pc, op'.arg>>)) =>
        \A t \in Counters :
            /\ ret' = automaton_predict(t, entries[PT_index(HRT_get(HRT, op'.pc).val)])
            /\ preds' = Append(preds, ret')
            /\ entries' = [entries EXCEPT ![idx'] = automaton_next(t, @, op'.arg)]

C19_CountersIdentical == [][C19_Event]_vars /\ [](C19_Function /\ C19_Start)

\* a predictor configured with A3 has predicted not taken after not-taken
\* events, and its pattern-table entries differ from one another
C19_Witness ==
    /\ cfg.automaton = "A3"
    /\ op.name = "event"
    /\ \E n \in 1 .. Len(preds) : ~preds[n]
    /\ \E i, j \in DOMAIN entries : entries[i] # entries[j]

\* --------------------------------------------------------------- C20
\* the trace (A,Taken),(A,Taken),(A,NotTaken),(A,Taken)
C20_Trace(A) == << <<A, Taken>>, <<A, Taken>>, <<A, NotTaken>>, <<A, Taken>> >>

\* C20: end-to-end tallies.  A two-level predictor with the exhaustive
\* table, k = 2 and a counter automaton, fed (A,Taken),(A,Taken),
\* (A,NotTaken),(A,Taken) for one address A with predict-then-update per
\* event, predicts Taken four times and scores total = 4, correct = 3.
C20_Tallies ==
    \A A \in TracePCs :
        (/\ cfg.hrt_kind = "IHRT"
         /\ history_bits = 2
         /\ cfg.automaton \in {"A2", "A3", "A4"}
         /\ trace = C20_Trace(A))
        => /\ preds = <<TRUE, TRUE, TRUE, TRUE>>
           /\ stats.total = 4
           /\ stats.correct = 3

\* the four events have been fed to the exhaustive k = 2 counter
\* configuration; the history of the address ends at binary 01
C20_Witness ==
    /\ cfg.hrt_kind = "IHRT"
    /\ history_bits = 2
    /\ cfg.automaton = "A2"
    /\ trace = C20_Trace(4)
    /\ stats.total = 4
    /\ ihrt_table[4] = 1
    /\ entries[3] = 2

\* --------------------------------------------------------------- C21
\* the exhaustive k = 2 counter configurations have processed the trace
\* (A,Taken),(A,Taken),(A,NotTaken),(A,Taken)
C21_Fed(A) ==
    /\ cfg.hrt_kind = "IHRT"
    /\ history_bits = 2
    /\ cfg.automaton \in {"A2", "A3", "A4"}
    /\ trace = C20_Trace(A)

\* C21 (as stated): after the four events (A,Taken),(A,Taken),(A,NotTaken),
\* (A,Taken) on the exhaustive k = 2 counter predictor the history
\* register stored for A is binary 10.
C21_FinalHistory10 ==
    \A A \in TracePCs :
        C21_Fed(A) => (A \in DOMAIN ihrt_table /\ ihrt_table[A] = 2)

\* C21 (amended): after those four events the history register stored for
\* A is binary 01: the register is binary 10 after the third event and
\* the fourth shifts the Taken bit in at the low end and drops the top bit.
C21_FinalHistory01 ==
    \A A \in TracePCs :
        /\ C21_Fed(A) => (A \in DOMAIN ihrt_table /\ ihrt_table[A] = 1)
        /\ (/\ cfg.hrt_kind = "IHRT"
            /\ history_bits = 2
            /\ trace = SubSeq(C20_Trace(A), 1, 3))
           => (A \in DOMAIN ihrt_table /\ ihrt_table[A] = 2)

\* the four events have been processed for address 0
C21_Witness ==
    /\ C21_Fed(0)
    /\ op.name = "event"
    /\ op.pc = 0
    /\ 0 \in DOMAIN ihrt_table
    /\ HRT_get(HRT, 0).val = 1

\* --------------------------------------------------------------- C22
\* n is a power of two
IsPow2(n) == \E b \in 0 .. n : Pow2(b) = n

\* the capacity and history-length rules a configuration has to meet
ValidConfig(c) ==
    /\ c.history_bits \in 1 .. 16
    /\ c.hrt_kind = "HHRT" => (c.hrt_entries > 0 /\ IsPow2(c.hrt_entries))
    /\ c.hrt_kind = "AHRT" =>
          /\ c.hrt_entries > 0
          /\ c.hrt_ways > 0
          /\ c.hrt_entries % c.hrt_ways = 0
          /\ IsPow2(c.hrt_entries \div c.hrt_ways)

\* C22: construction of a predictor from an invalid configuration (entry
\* or way count not positive, entry count not divisible by the way count,
\* set count or hashed entry count not a power of two, k out of bounds)
\* fails and never proceeds: no instance built from an invalid
\* configuration ever predicts, is scored or is updated.
C22_InvalidRejected ==
    ~ValidConfig(cfg) =>
        /\ trace = <<>>
        /\ stats.total = 0
        /\ op.name = "new"

\* --------------------------------------------------------------- C23
\* the three tallies of main: the two-level instance and the baselines
Tallies == <<stats, stats_always, stats_bimodal>>

\* the fraction f lies in [0, 1]
InUnit(f) == f.den > 0 /\ 0 <= f.num /\ f.num <= f.den

\* C23: accuracy counters.  For every predictor, after any prefix of the
\* trace total equals the number of events processed and
\* 0 <= correct <= total; an event adds one to total and adds one to
\* correct exactly when the prediction equals the outcome; accuracy =
\* correct/total lies in [0,1], and with total = 0 it is 0 and nothing is
\* divided.
C23_Range ==
    \A n \in 1 .. 3 :
        /\ Tallies[n].total = Len(trace)
        /\ 0 <= Tallies[n].correct
        /\ Tallies[n].correct <= Tallies[n].total
        /\ InUnit(accuracy(Tallies[n]))
        /\ Tallies[n].total = 0 => accuracy(Tallies[n]) = [num |-> 0, den |-> 1]
        /\ Tallies[n].total > 0 =>
              accuracy(Tallies[n]) = [num |-> Tallies[n].correct, den |-> Tallies[n].total]

C23_Event ==
    (trace' = Append(trace, <<op'.pc, op'.arg>>)) =>
        LET o  == op'.arg = Taken
            p1 == PT_predict(entries, HRT_get(HRT, op'.pc).val)
            p2 == TRUE
            p3 == Bimodal_state(bimodal_table, op'.pc) >= 2
        IN  /\ stats'.total = stats.total + 1
            /\ stats_always'.total = stats_always.total + 1
            /\ stats_bimodal'.total = stats_bimodal.total + 1
            /\ stats'.correct = stats.correct + (IF p1 = o THEN 1 ELSE 0)
            /\ stats_always'.correct = stats_always.correct + (IF p2 = o THEN 1 ELSE 0)
            /\ stats_bimodal'.correct = stats_bimodal.correct + (IF p3 = o THEN 1 ELSE 0)

C23_Counters == [][C23_Event]_vars /\ []C23_Range

\* after three events the two-level instance has scored some but not all
\* of them and differs from the always-taken baseline
C23_Witness ==
    /\ Len(trace) = 3
    /\ 0 < stats.correct
    /\ stats.correct < stats.total
    /\ stats_always.correct # stats.correct
    /\ \E n \in 1 .. 3 : ~preds[n] /\ trace[n][2] = NotTaken

\* --------------------------------------------------------------- C24
\* C24 (as stated): accuracy is 0 exactly when total = 0, for every
\* reachable pair of counters.
C24_ZeroIffEmpty ==
    \A n \in 1 .. 3 :
        (accuracy(Tallies[n]).num = 0) <=> (Tallies[n].total = 0)

\* C24 (amended): accuracy is 0 when total = 0, and for every reachable
\* pair of counters it is 0 exactly when correct = 0, which covers
\* total = 0 and every run without a correct prediction.
C24_ZeroIffNoneCorrect ==
    \A n \in 1 .. 3 :
        /\ Tallies[n].total = 0 => accuracy(Tallies[n]).num = 0
        /\ (accuracy(Tallies[n]).num = 0) <=> (Tallies[n].correct = 0)
        /\ accuracy(Tallies[n]).den > 0

\* two not-taken events: the always-taken baseline has total 2 and
\* accuracy 0
C24_Witness ==
    /\ stats_always.total = 2
    /\ stats_always.correct = 0
    /\ accuracy(stats_always).num = 0
    /\ accuracy(stats_always).den = 2

\* --------------------------------------------------------------- C25
\* the cost of a fresh hashed or associative instance with e entries and
\* k history bits
FixedCost(e, k) == cost_bits(e, k, Pow2(k))

\* C25: the hardware-cost estimate equals capacity() * k + 2 * 2^k; it is
\* non-decreasing in the entry count for fixed k and in k for a fixed
\* entry count; for the hashed and the associative table it is constant
\* over a run, for the exhaustive table it never decreases as events are
\* processed.
C25_Value ==
    hardware_cost_bits(HRT, entries)
        = HRT_capacity_entries(HRT) * cfg.history_bits + 2 * Pow2(cfg.history_bits)

C25_Monotone ==
    \A e \in 0 .. MaxCostEntries, k \in 1 .. MaxCostBits :
        /\ FixedCost(e, k) = e * k + 2 * Pow2(k)
        /\ FixedCost(e, k) <= FixedCost(e + 1, k)
        /\ FixedCost(e, k) <= FixedCost(e, k + 1)

C25_Run ==
    /\ cfg.hrt_kind \in {"HHRT", "AHRT"} =>
          hardware_cost_bits(HRT', entries') = hardware_cost_bits(HRT, entries)
    /\ cfg.hrt_kind = "IHRT" =>
          hardware_cost_bits(HRT', entries') >= hardware_cost_bits(HRT, entries)

C25_HardwareCost == [][C25_Run]_vars /\ [](C25_Value /\ C25_Monotone)

\* an exhaustive k = 2 instance has seen two addresses: 2 * 2 + 2 * 4 bits
C25_Witness ==
    /\ cfg.hrt_kind = "IHRT"
    /\ cfg.history_bits = 2
    /\ Cardinality(DOMAIN ihrt_table) = 2
    /\ hardware_cost_bits(HRT, entries) = 12

\* --------------------------------------------------------------- C26
\* the outcomes of the records of tr for address a, oldest first
RECURSIVE OutcomesOf(_, _)
OutcomesOf(a, tr) ==
    IF tr = <<>> THEN <<>>
    ELSE IF Head(tr)[1] = a THEN <<Head(tr)[2]>> \o OutcomesOf(a, Tail(tr))
    ELSE OutcomesOf(a, Tail(tr))

\* the state of automaton t after consuming the outcomes os from state s
RECURSIVE RunFrom(_, _, _)
RunFrom(t, s, os) ==
    IF os = <<>> THEN s ELSE RunFrom(t, automaton_next(t, s, Head(os)), Tail(os))

\* C26: per-address 2-bit baseline.  After any event sequence the
\* prediction for address a is the prediction of the A2 automaton started
\* at state 3 and fed exactly the outcomes of a's events in order;
\* update(b, o) with b # a leaves a's state as it was, and the only entry
\* an event inserts or changes is the one of the updated address.
C26_Refines ==
    \A a \in TracePCs :
        /\ Bimodal_predict(bimodal_table, a)
              = automaton_predict("A2", RunFrom("A2", 3, OutcomesOf(a, trace)))
        /\ Bimodal_predict(bimodal_table, a)
              = (RunFrom("A2", 3, OutcomesOf(a, trace)) >= 2)
        /\ a \in DOMAIN bimodal_table =>
              bimodal_table[a] = RunFrom("A2", 3, OutcomesOf(a, trace))
        /\ (a \in DOMAIN bimodal_table) <=> (OutcomesOf(a, trace) # <<>>)

C26_Frame ==
    (trace' = Append(trace, <<op'.pc, op'.arg>>)) =>
        /\ DOMAIN bimodal_table' = DOMAIN bimodal_table \cup {op'.pc}
        /\ \A a \in DOMAIN bimodal_table :
              a # op'.pc => bimodal_table'[a] = bimodal_table[a]

C26_BimodalBaseline == [][C26_Frame]_vars /\ []C26_Refines

\* interleaved events of two addresses: address 0 has seen NotTaken twice
\* and predicts not taken, address 4 has seen Taken, NotTaken and predicts
\* taken
C26_Witness ==
    /\ trace = << <<0, NotTaken>>, <<4, Taken>>, <<0, NotTaken>>, <<4, NotTaken>> >>
    /\ bimodal_table[0] = 1
    /\ bimodal_table[4] = 2
    /\ ~Bimodal_predict(bimodal_table, 0)
    /\ Bimodal_predict(bimodal_table, 4)

\* --------------------------------------------------------------- C27
\* the number of Taken records in tr
TakenCount(tr) == Cardinality({ n \in 1 .. Len(tr) : tr[n][2] = Taken })

\* C27: always-taken baseline.  predict returns true for every address
\* after any sequence of updates, so each event is scored correct exactly
\* when its outcome is Taken and the correct count after any trace prefix
\* is the number of Taken events in that prefix.
C27_Constant ==
    /\ \A pc \in PCs \cup TracePCs : AlwaysTaken_predict(pc) = TRUE
    /\ stats_always.correct = TakenCount(trace)
    /\ stats_always.total = Len(trace)

C27_Scored ==
    (trace' = Append(trace, <<op'.pc, op'.arg>>)) =>
        stats_always'.correct
            = stats_always.correct + (IF op'.arg = Taken THEN 1 ELSE 0)

C27_AlwaysTaken == [][C27_Scored]_vars /\ []C27_Constant

\* a trace of two Taken and two NotTaken records
C27_Witness ==
    /\ Len(trace) = 4
    /\ TakenCount(trace) = 2
    /\ stats_always = [total |-> 4, correct |-> 2]
    /\ trace[4][2] = NotTaken

\* --------------------------------------------------------------- C28
\* the state of a lone ATSim after the first n records of the tape
RECURSIVE SimAfter(_, _)
SimAfter(S0, n) ==
    IF n = 0 THEN S0
    ELSE LET o == ToOutcome(tape[n].taken_int)
         IN  ATSim_update(ATSim_score(ATSim_predict(SimAfter(S0, n - 1), tape[n].pc), o),
                          tape[n].pc, o)

\* the state of a lone ATSim at the position S has reached
Alone(S0, S) ==
    IF Len(S.pr) = S.st.total THEN SimAfter(S0, S.st.total)
    ELSE ATSim_predict(SimAfter(S0, S.st.total), tape[S.st.total + 1].pc)

\* the ATSim as constructed from cfg
FreshSim ==
    [h  |-> [it |-> <<>>,
             hh |-> IF cfg.hrt_kind = "HHRT"
                    THEN [i \in 0 .. cfg.hrt_entries - 1 |-> init_history] ELSE <<>>,
             at |-> IF cfg.hrt_kind = "AHRT"
                    THEN [s \in 0 .. sets - 1 |-> [w \in 0 .. ways - 1 |->
                            [valid |-> FALSE, tag |-> 0, history |-> init_history]]]
                    ELSE <<>>,
             nv |-> IF cfg.hrt_kind = "AHRT" THEN [s \in 0 .. sets - 1 |-> 0] ELSE <<>>,
             as |-> IF cfg.hrt_kind = "AHRT" THEN [s \in 0 .. sets - 1 |-> <<>>] ELSE <<>>,
             wr |-> {}],
     e  |-> [i \in 0 .. Pow2(cfg.history_bits) - 1 |-> automaton_init_state(cfg.automaton)],
     st |-> Stats0,
     pr |-> <<>>]

\* C28: instance isolation.  A predict or update on one instance leaves
\* the state of every other instance as it was, also for two instances
\* built from the same configuration; under every interleaving of the
\* steps of the two instances that keeps each instance's records in
\* trace order, the predictions, tallies and table state of each instance
\* are the ones it has when it runs alone.
C28_Frame ==
    /\ (op'.arg = 1 /\ op' # op) => other' = other
    /\ (op'.arg = 2 /\ op' # op) => Sim1' = Sim1
    /\ Sim1' # Sim1 => other' = other
    /\ other' # other => Sim1' = Sim1

C28_SameAsAlone ==
    /\ Sim1 = Alone(FreshSim, Sim1)
    /\ other = Alone(FreshSim, other)

C28_Isolation == [][C28_Frame]_vars /\ []C28_SameAsAlone

\* the first instance has finished two records while the second, built
\* from the same configuration, has not started
C28_Witness ==
    /\ stats.total = 2
    /\ Len(other.pr) = 0
    /\ other = FreshSim
    /\ entries # other.e
    /\ HRT # other.h

\* --------------------------------------------------------------- C29
\* the call of predictor who on record r of the tape, as the log holds it
Expected(who, c, r) ==
    [who |-> who, call |-> c, rec |-> r,
     pc |-> tape[r].pc, o |-> ToOutcome(tape[r].taken_int)]

\* the calls of one record: every predictor in the order of main, each
\* one predicted, scored, updated
Block(r) ==
    << Expected("at1", "predict", r), Expected("at1", "score", r), Expected("at1", "update", r),
       Expected("at2", "predict", r), Expected("at2", "score", r), Expected("at2", "update", r),
       Expected("always", "predict", r), Expected("always", "score", r),
       Expected("always", "update", r),
       Expected("bimodal", "predict", r), Expected("bimodal", "score", r),
       Expected("bimodal", "update", r) >>

\* the calls of the first n records
RECURSIVE Canon(_)
Canon(n) == IF n = 0 THEN <<>> ELSE Canon(n - 1) \o Block(n)

\* the number of records before the first malformed line of tp
RECURSIVE GoodPrefix(_)
GoodPrefix(tp) ==
    IF tp = <<>> THEN 0
    ELSE IF ~Head(tp).ok THEN 0
    ELSE 1 + GoodPrefix(Tail(tp))

\* the number of well-formed records of tp
WellFormedCount(tp) == Cardinality({ n \in 1 .. Len(tp) : tp[n].ok })

\* for every record read and every predictor: predict once, then the
\* score, then update once, with the record's address and outcome; every
\* predictor finishes a record before the next one is read
C29_Order ==
    /\ drv.log = SubSeq(Canon(Len(trace)), 1, Len(drv.log))
    /\ drv.loc \in {"read", "done"} => drv.log = Canon(Len(trace))
    /\ drv.loc \notin {"read", "done"} =>
          /\ Len(trace) >= 1
          /\ Len(drv.log) >= Len(Canon(Len(trace) - 1))
          /\ Len(drv.log) < Len(Canon(Len(trace)))

\* the loop terminates
C29_Halts == <>(drv.loc = "done")

AssignedLines ==
    { l \in Lines :
        \/ ahrt_table'[l[1]][l[2]].valid # ahrt_table[l[1]][l[2]].valid
        \/ ahrt_table'[l[1]][l[2]].tag # ahrt_table[l[1]][l[2]].tag }

\* C30: within one predict(a)-then-update(a, o) event on the associative
\* table at most one line is (re)assigned and the cursor of a's set
\* advances at most once, exactly when a was not resident before the
\* event; the get and the set of update resolve to the line predict
\* read: that line alone changes, it holds a's tag afterwards, and its
\* history is the one predict read with the outcome shifted in.
C30_Event ==
    (cfg.hrt_kind = "AHRT" /\ trace' = Append(trace, <<op'.pc, op'.arg>>)) =>
        LET a   == op'.pc
            si  == (a \div 4) % sets
            res == ResidentWays(ahrt_table, a)
            w0  == IF res # {} THEN CHOOSE w \in res : TRUE ELSE next_victim[si]
            h0  == ahrt_table[si][w0].history
        IN  /\ Cardinality(AssignedLines) <= 1
            /\ res # {} => AssignedLines = {}
            /\ res = {} => AssignedLines = {<<si, w0>>}
            /\ next_victim' = [next_victim EXCEPT
                                 ![si] = IF res = {} THEN (@ + 1) % ways ELSE @]
            /\ ChangedLines \subseteq {<<si, w0>>}
            /\ ResidentWays(ahrt_table', a) = {w0}
            /\ ahrt_table'[si][w0].history
                  = (2 * h0 + (IF op'.arg = Taken THEN 1 ELSE 0)) % Pow2(history_bits)
            /\ ret' = automaton_predict(cfg.automaton, entries[h0 % Pow2(history_bits)])
            /\ HRT_get(HRT_get(HRT, a).h, a).h = HRT_get(HRT, a).h

C30_OneLinePerEvent == [][C30_Event]_vars

\* the third event of a two-way set has evicted the line assigned first
\* and moved the cursor on to the second
C30_Witness ==
    /\ cfg.hrt_kind = "AHRT"
    /\ ways = 2
    /\ Len(trace) = 3
    /\ \E s \in 0 .. sets - 1 :
          /\ assigned[s] = <<1, 0>>
          /\ next_victim[s] = 1
          /\ ahrt_table[s][0].valid
          /\ ahrt_table[s][0].tag = WordTag(op.pc)

\* --------------------------------------------------------------- C31
\* the addresses of the records of tr
AddressesOf(tr) == { tr[n][1] : n \in 1 .. Len(tr) }

\* no two distinct addresses of tr share a slot (a >> 2) mod N
NoSharedSlot(tr) ==
    \A a, b \in AddressesOf(tr) :
        a # b => (a \div 4) % cfg.hrt_entries # (b \div 4) % cfg.hrt_entries

\* no two distinct addresses of tr share (set index, tag), and no set
\* receives more than W distinct tags
NoSharedLine(tr) ==
    /\ \A a, b \in AddressesOf(tr) :
          a # b => <<WordSet(a), WordTag(a)>> # <<WordSet(b), WordTag(b)>>
    /\ \A s \in 0 .. sets - 1 :
          Cardinality({ WordTag(a) : a \in { x \in AddressesOf(tr) : WordSet(x) = s } })
              <= ways

\* C31: equivalence to the exhaustive reference without collisions.  For
\* the same k and automaton kind, the hashed predictor yields the
\* prediction sequence of the exhaustive predictor on every trace in
\* which no two distinct addresses share a slot, and the associative
\* predictor does so on every trace in which no two distinct addresses
\* share (set index, tag) and no set receives more than W distinct tags.
C31_Equivalence ==
    /\ (cfg.hrt_kind = "HHRT" /\ NoSharedSlot(trace)) =>
          /\ preds = other.pr
          /\ entries = other.e
          /\ stats = other.st
    /\ (cfg.hrt_kind = "AHRT" /\ NoSharedLine(trace)) =>
          /\ preds = other.pr
          /\ entries = other.e
          /\ stats = other.st
    /\ cfg.hrt_kind = "IHRT" =>
          /\ preds = other.pr
          /\ ihrt_table = other.h.it

\* a hashed predictor has served two addresses of different slots, has
\* predicted not taken for the second record, and agrees with the
\* exhaustive one
C31_Witness ==
    /\ cfg.hrt_kind = "HHRT"
    /\ Len(trace) = 3
    /\ Cardinality(AddressesOf(trace)) = 2
    /\ NoSharedSlot(trace)
    /\ ~preds[2]
    /\ preds = other.pr
    /\ DOMAIN other.h.it = AddressesOf(trace)

\* an associative predictor has served two addresses of one two-way set
\* without eviction, has predicted not taken, and agrees with the
\* exhaustive one
C31_WitnessAssoc ==
    /\ cfg.hrt_kind = "AHRT"
    /\ ways = 2
    /\ Len(trace) = 3
    /\ \E a, b \in AddressesOf(trace) : a # b /\ WordSet(a) = WordSet(b)
    /\ NoSharedLine(trace)
    /\ \E n \in 1 .. 3 : ~preds[n]
    /\ preds = other.pr

\* with two addresses in one hashed slot, or more tags than ways in one
\* set, the predictions can differ from the exhaustive ones
C31_CollisionDiffers ==
    /\ cfg.hrt_kind = "HHRT"
    /\ ~NoSharedSlot(trace)
    /\ preds # other.pr

C31_OverflowDiffers ==
    /\ cfg.hrt_kind = "AHRT"
    /\ \A a, b \in AddressesOf(trace) : a # b => a \div 4 # b \div 4
    /\ ~NoSharedLine(trace)
    /\ preds # other.pr

====
